---------------------------- MODULE Spec2Model ----------------------------
(***************************************************************************)
(* A model of the operational code of EduVerse:                            *)
(*   - undo_migrations.sh, the migration reset procedure, and the deploy   *)
(*     script that calls it;                                               *)
(*   - the base-branch check of pull requests;                             *)
(*   - the two Django test workflows;                                      *)
(*   - the dashboard and landing page click handlers.                      *)
(* The Django management commands the shell script calls are not part of   *)
(* the sources; they are modelled by their documented effect on the        *)
(* migration records and on the migration packages.                        *)
(***************************************************************************)
EXTENDS Naturals, Sequences, FiniteSets, TLC

VARIABLES
    \* ---- undo_migrations.sh: the shell process
    pc,           \* the command the script executes next
    redo,         \* the shell variable redo
    all_apps,     \* the shell variable all_apps, one entry per line
    my_apps,      \* the shell variable my_apps, one entry per line
    django_apps,  \* the shell variable django_apps, one entry per line
    app,          \* the position of the running for loop in its list
    status,       \* $?, the status of the last command executed
    trace,        \* the commands this run has executed, with their status
    \* ---- the working directory and the database the script acts on
    db_sqlite3,   \* the file db.sqlite3 exists
    error_log,    \* the file error.log exists
    migrations,   \* per top-level name: the state of <name>/migrations/
    applied,      \* per application label: migrations are recorded as applied
    superuser,    \* the privileged account exists
    project,      \* the layout of the project, which no run changes
    \* ---- the callers of the script
    origin,       \* the working directory and database when this run, or
                  \* the run it resumes, began
    runs,         \* the number of runs started
    interrupts,   \* the number of runs that were interrupted
    deploy,       \* the position of the deploy script
    \* ---- the base-branch check
    base_branch,  \* .pull_request.base.ref of the event
    head_branch,  \* .pull_request.head.ref of the event
    check_pc,     \* the position of the check
    check_exit,   \* the exit status of the check's script
    \* ---- the test workflows
    workflow,          \* the job that runs
    manage_py,         \* the checked-out repository holds manage.py
    requirements_txt,  \* the checked-out repository holds requirements.txt
    fails_at,          \* the command of Install Dependencies that fails for a
                       \* reason outside the repository (0: none)
    tests_pass,        \* python manage.py test passes
    job_pc,            \* the step the job runs next
    install_step,      \* the conclusion of Install Dependencies
    test_step,         \* the conclusion of Run Tests
    notice,            \* the notice that manage.py is missing was printed
    \* ---- the dashboard script
    user_menu_hidden,  \* the class list of user-menu holds 'hidden'
    sidebar_closed,    \* the class list of sidebar holds 'sidebar-closed'
    click_target,      \* the target of the click being dispatched
    pending,           \* the listeners the click has still to reach
    hidden_before      \* user_menu_hidden when the click was made

resetVars == <<pc, redo, all_apps, my_apps, django_apps, app, status, trace,
               db_sqlite3, error_log, migrations, applied, superuser, project,
               origin, runs, interrupts, deploy>>
branchVars == <<base_branch, head_branch, check_pc, check_exit>>
ciVars == <<workflow, manage_py, requirements_txt, fails_at, tests_pass, job_pc,
            install_step, test_step, notice>>
uiVars == <<user_menu_hidden, sidebar_closed, click_target, pending,
            hidden_before>>
vars == <<resetVars, branchVars, ciVars, uiVars>>

----------------------------------------------------------------------------
(* Text, as the shell tools see it. *)

Lower == {"a", "b", "c", "d", "e", "f", "g", "h", "i", "j", "k", "l", "m",
          "n", "o", "p", "q", "r", "s", "t", "u", "v", "w", "x", "y", "z"}

\* p occurs in s (an unanchored match of a pattern without metacharacters).
Contains(s, p) ==
    \E k \in 1..(Len(s) + 1) :
        /\ k + Len(p) - 1 <= Len(s)
        /\ SubSeq(s, k, k + Len(p) - 1) = p

\* grep -o '^[a-z]*' on one line: the longest run of lower-case letters at
\* the start of the line.
LowerPrefixLen(line) ==
    LET good == {k \in 0..Len(line) :
                    \A j \in 1..k : SubSeq(line, j, j) \in Lower}
    IN  CHOOSE k \in good : \A m \in good : m <= k

RECURSIVE GrepLowerPrefix(_)
\* grep -o prints the non-empty matches only.
GrepLowerPrefix(lines) ==
    IF lines = << >> THEN << >>
    ELSE LET n == LowerPrefixLen(Head(lines))
             rest == GrepLowerPrefix(Tail(lines))
         IN  IF n = 0 THEN rest ELSE <<SubSeq(Head(lines), 1, n)>> \o rest

\* grep -v -f patterns: the lines that none of the patterns matches.
GrepInvertFile(lines, patterns) ==
    SelectSeq(lines, LAMBDA l : \A k \in 1..Len(patterns) : ~Contains(l, patterns[k]))

\* echo "${my_apps[@]}": the lines of the variable; one empty line when it is
\* empty.
EchoLines(list) == IF list = << >> THEN <<"">> ELSE list

----------------------------------------------------------------------------
(* The project: top-level directory names and application labels, in the   *)
(* order in which sort -u and showmigrations list them.                    *)

Names == <<"a", "ab", "c", "c_d">>
NameSet == {Names[k] : k \in 1..Len(Names)}

MaxRuns == 2
MaxInterrupts == 1

\* The application has a migrations package the framework can load.
HasMigrations(s, n) ==
    /\ n \in NameSet
    /\ project.installed[n]
    /\ (project.external[n] \/ s.migrations[n] = "package")

\* manage.py opens the configured database; sqlite creates the file.
Connect(s) == IF project.sqlite THEN [s EXCEPT !.db_sqlite3 = TRUE] ELSE s

Ran(s, cmd, rc) ==
    [s EXCEPT !.status = rc, !.trace = Append(@, <<cmd, rc>>)]

\* cmd || : leaves status 0 whatever cmd returned.
OrTrue(s) == [s EXCEPT !.status = 0]

\* grep returns 1 when it selects no line; a pipeline returns the status of
\* its last command.
GrepStatus(selected) == IF selected = << >> THEN 1 ELSE 0

\* manage.py showmigrations: per application with migrations, its label and
\* under it one indented line per migration.
ShowMigrationsOutput(s) ==
    LET Line(k) == IF HasMigrations(s, Names[k])
                   THEN <<Names[k],
                          IF s.applied[Names[k]] THEN " [X] 0001_initial"
                                                 ELSE " [ ] 0001_initial">>
                   ELSE << >>
        F[k \in 0..Len(Names)] == IF k = 0 THEN << >> ELSE F[k - 1] \o Line(k)
    IN  F[Len(Names)]

\* manage.py migrate <label> zero: unapplies the application's migrations;
\* fails for a label that is no installed application or has no migrations.
MigrateZero(s, label) ==
    IF HasMigrations(s, label)
    THEN Ran(Connect([s EXCEPT !.applied[label] = FALSE]), "migrate_zero", 0)
    ELSE Ran(s, "migrate_zero", 1)

\* rm -rf "<name>/migrations/"
RmMigrations(s, name) ==
    Ran(IF name \in NameSet THEN [s EXCEPT !.migrations[name] = "absent"] ELSE s,
        "rm_migrations", 0)

\* manage.py migrate: applies every migration of every application.
MigrateAll(s) ==
    Ran(Connect([s EXCEPT !.applied =
                    [n \in NameSet |-> HasMigrations(s, n) \/ s.applied[n]]]),
        "migrate", 0)

\* manage.py makemigrations <labels>: refuses a label that is no installed
\* application; otherwise writes the migrations package of each label.
MakeMigrationsCmd(s, labels) ==
    LET L == {labels[k] : k \in 1..Len(labels)}
    IN  IF \A n \in L : n \in NameSet /\ project.installed[n]
        THEN Ran(Connect([s EXCEPT !.migrations =
                    [n \in NameSet |-> IF n \in L THEN "package" ELSE @[n]]]),
                 "makemigrations", 0)
        ELSE Ran(s, "makemigrations", 2)

----------------------------------------------------------------------------
(* undo_migrations.sh, one operator per command.                           *)

AfterRemove(s) == IF s.redo THEN "makemigrations" ELSE "filter"
\* The superuser provisioned right after the rollback loop.
AfterUndoNoMigrate(s) == IF s.redo THEN "create_superuser" ELSE "rm_error_log"
AfterUndo(s) == IF s.redo THEN "final_migrate" ELSE "rm_error_log"

\* redo=false; if [[ $1 == "--redo" ]]; then redo=true; fi
ParseArgs(s, arg) ==
    [s EXCEPT !.pc = "rm_db", !.redo = (arg = "--redo"), !.status = 0,
              !.all_apps = << >>, !.my_apps = << >>, !.django_apps = << >>,
              !.app = 1, !.trace = << >>]

\* rm -f db.sqlite3
RmDb(s) ==
    LET t == IF project.sqlite
             THEN [s EXCEPT !.applied = [n \in NameSet |-> FALSE],
                            !.superuser = FALSE]
             ELSE s
    IN  [Ran([t EXCEPT !.db_sqlite3 = FALSE], "rm_db", 0)
            EXCEPT !.pc = "showmigrations"]

\* all_apps=$(./manage.py showmigrations | grep -o '^[a-z]*') || :
ShowMigrations(s) ==
    LET found == GrepLowerPrefix(ShowMigrationsOutput(s))
    IN  [OrTrue(Ran(Connect(s), "showmigrations", GrepStatus(found)))
            EXCEPT !.all_apps = found, !.pc = "find"]

\* my_apps=$(find . -type d ... -printf '%P\n' | cut -d '/' -f 1 | sort -u)
FindMyApps(s) ==
    LET owned == SelectSeq(Names, LAMBDA n :
                     project.package[n] \/ s.migrations[n] = "package")
        t == [Ran(s, "find", 0) EXCEPT !.my_apps = owned, !.app = 1]
    IN  [t EXCEPT !.pc = IF owned = << >> THEN AfterRemove(t) ELSE "remove_zero"]

\* remove_app_migrations: ./manage.py migrate "${app}" zero
RemoveZero(s) ==
    [MigrateZero(s, s.my_apps[s.app]) EXCEPT !.pc = "remove_rm"]

\* remove_app_migrations: rm -rf "${app}/migrations/"
RemoveRm(s) ==
    LET t == RmMigrations(s, s.my_apps[s.app])
    IN  [t EXCEPT !.app = IF s.app < Len(s.my_apps) THEN s.app + 1 ELSE 1,
                  !.pc = IF s.app < Len(s.my_apps) THEN "remove_zero"
                                                   ELSE AfterRemove(t)]

\* ./manage.py makemigrations $my_apps
MakeMigrations(s) ==
    [MakeMigrationsCmd(s, s.my_apps) EXCEPT !.pc = "migrate"]

\* ./manage.py migrate (in the redo branch)
Migrate(s) == [MigrateAll(s) EXCEPT !.pc = "filter"]

\* Every discovered application taken, the owned ones too.
FilterNothing(s) ==
    LET t == [OrTrue(Ran(s, "filter", GrepStatus(s.all_apps)))
                 EXCEPT !.django_apps = s.all_apps, !.app = 1]
    IN  [t EXCEPT !.pc = IF s.all_apps = << >> THEN AfterUndo(t) ELSE "undo_zero"]

\* django_apps=$(echo "${all_apps}" | grep -v -f <(echo "${my_apps[@]}")) || :
FilterDjangoApps(s) ==
    LET rest == GrepInvertFile(s.all_apps, EchoLines(s.my_apps))
        t == [OrTrue(Ran(s, "filter", GrepStatus(rest)))
                 EXCEPT !.django_apps = rest, !.app = 1]
    IN  [t EXCEPT !.pc = IF rest = << >> THEN AfterUndo(t) ELSE "undo_zero"]

\* for app in ${django_apps}: ./manage.py migrate "${app}" zero
UndoZero(s) ==
    [MigrateZero(s, s.django_apps[s.app]) EXCEPT !.pc = "undo_rm"]

\* for app in ${django_apps}: rm -rf "${app}/migrations/"
UndoRm(s) ==
    LET t == RmMigrations(s, s.django_apps[s.app])
    IN  [t EXCEPT !.app = IF s.app < Len(s.django_apps) THEN s.app + 1 ELSE 1,
                  !.pc = IF s.app < Len(s.django_apps) THEN "undo_zero"
                                                       ELSE AfterUndo(t)]

\* The last migrate left out.
FinalMigrateSkipped(s) == [s EXCEPT !.pc = "create_superuser"]

\* if [[ ${redo} == true ]]; then ./manage.py migrate
FinalMigrate(s) == [MigrateAll(s) EXCEPT !.pc = "create_superuser"]

\* ./create_superuser.py; ok is whether it succeeds
CreateSuperuser(s, ok) ==
    [Ran(IF ok THEN Connect([s EXCEPT !.superuser = TRUE]) ELSE s,
         "create_superuser", IF ok THEN 0 ELSE 1)
        EXCEPT !.pc = "rm_error_log"]

\* rm error.log 2>/dev/null
RmErrorLog(s) ==
    [Ran([s EXCEPT !.error_log = FALSE], "rm_error_log",
         IF s.error_log THEN 0 ELSE 1)
        EXCEPT !.pc = "echo"]

\* The script ending without its echo, with the status of rm error.log.
FinishWithoutEcho(s) == [s EXCEPT !.pc = "done"]

\* echo "Finished execution successfully"; the script ends with its status
Finish(s) == [Ran(s, "echo", 0) EXCEPT !.pc = "done"]

\* The command at s.pc; create_superuser.py taken to succeed.
Step(s) ==
    CASE s.pc = "rm_db" -> RmDb(s)
      [] s.pc = "showmigrations" -> ShowMigrations(s)
      [] s.pc = "find" -> FindMyApps(s)
      [] s.pc = "remove_zero" -> RemoveZero(s)
      [] s.pc = "remove_rm" -> RemoveRm(s)
      [] s.pc = "makemigrations" -> MakeMigrations(s)
      [] s.pc = "migrate" -> Migrate(s)
      [] s.pc = "filter" -> FilterDjangoApps(s)
      [] s.pc = "undo_zero" -> UndoZero(s)
      [] s.pc = "undo_rm" -> UndoRm(s)
      [] s.pc = "final_migrate" -> FinalMigrate(s)
      [] s.pc = "create_superuser" -> CreateSuperuser(s, TRUE)
      [] s.pc = "rm_error_log" -> RmErrorLog(s)
      [] s.pc = "echo" -> Finish(s)

RECURSIVE RunToEnd(_)
\* An uninterrupted run from s to the end of the script.
RunToEnd(s) == IF s.pc = "done" THEN s ELSE RunToEnd(Step(s))

----------------------------------------------------------------------------
(* The state of the shell process and of what it acts on, as one record.   *)

Cur ==
    [pc |-> pc, redo |-> redo, all_apps |-> all_apps, my_apps |-> my_apps,
     django_apps |-> django_apps, app |-> app, status |-> status,
     trace |-> trace, db_sqlite3 |-> db_sqlite3, error_log |-> error_log,
     migrations |-> migrations, applied |-> applied, superuser |-> superuser]

Becomes(s) ==
    /\ pc' = s.pc
    /\ redo' = s.redo
    /\ all_apps' = s.all_apps
    /\ my_apps' = s.my_apps
    /\ django_apps' = s.django_apps
    /\ app' = s.app
    /\ status' = s.status
    /\ trace' = s.trace
    /\ db_sqlite3' = s.db_sqlite3
    /\ error_log' = s.error_log
    /\ migrations' = s.migrations
    /\ applied' = s.applied
    /\ superuser' = s.superuser

\* What a run leaves behind: the database file, the applied migrations, the
\* migrations directories and error.log.
EndState(s) ==
    [db_sqlite3 |-> s.db_sqlite3,
     applied |-> s.applied,
     migrations_dir |-> [n \in NameSet |-> s.migrations[n] # "absent"],
     error_log |-> s.error_log]

\* The working directory and the database, without the shell process.
Env(s) ==
    [db_sqlite3 |-> s.db_sqlite3, error_log |-> s.error_log,
     migrations |-> s.migrations, applied |-> s.applied,
     superuser |-> s.superuser]

----------------------------------------------------------------------------
(* The layouts a run may meet.                                             *)

\* What a top-level name may be: a directory of the project that holds a
\* package or not and is an installed application or not, an application
\* installed from outside the project, or nothing.
Local == {[package |-> p, installed |-> i, external |-> FALSE] :
             p \in BOOLEAN, i \in BOOLEAN}
Vendor == [package |-> FALSE, installed |-> TRUE, external |-> TRUE]
Nothing == [package |-> FALSE, installed |-> FALSE, external |-> FALSE]
ProjectApp == [package |-> TRUE, installed |-> TRUE, external |-> FALSE]

Kinds(n) ==
    CASE n = "a" -> Local
      [] n = "ab" -> {Vendor, Nothing}
      [] n = "c" -> {Nothing}
      [] OTHER -> {ProjectApp, Vendor, Nothing}

\* The names under which a directory <name>/migrations/ without __init__.py
\* may lie in the working directory.
Stray == {"ab", "c"}

\* <name>/migrations/ is absent, a plain directory, or a package (it holds
\* __init__.py); a directory of the project holds no plain one.
MigrationsDirs(n, kind) ==
    IF kind \in {Nothing, Vendor}
    THEN IF n \in Stray THEN {"absent", "plain"} ELSE {"absent"}
    ELSE {"absent", "package"}

ResetInit ==
    /\ pc = "idle"
    /\ redo = FALSE
    /\ all_apps = << >>
    /\ my_apps = << >>
    /\ django_apps = << >>
    /\ app = 1
    /\ status = 0
    /\ trace = << >>
    /\ db_sqlite3 \in BOOLEAN
    /\ error_log \in BOOLEAN
    /\ superuser = FALSE
    /\ \E kind \in [NameSet -> Local \cup {Vendor}] :
          /\ \A n \in NameSet : kind[n] \in Kinds(n)
          /\ \E sqlite \in BOOLEAN :
                project = [sqlite |-> sqlite,
                           package |-> [n \in NameSet |-> kind[n].package],
                           installed |-> [n \in NameSet |-> kind[n].installed],
                           external |-> [n \in NameSet |-> kind[n].external]]
          /\ migrations \in [NameSet -> {"absent", "plain", "package"}]
          /\ \A n \in NameSet : migrations[n] \in MigrationsDirs(n, kind[n])
    /\ applied \in [NameSet -> BOOLEAN]
    /\ \A n \in NameSet : applied[n] => project.installed[n]
    /\ (project.sqlite /\ ~db_sqlite3) => \A n \in NameSet : ~applied[n]
    /\ origin = Env(Cur)
    /\ runs = 0
    /\ interrupts = 0
    /\ deploy = "none"

BranchIdle ==
    /\ base_branch = ""
    /\ head_branch = ""
    /\ check_pc = "waiting"
    /\ check_exit = 0

CiIdle ==
    /\ workflow = "none"
    /\ manage_py = FALSE
    /\ requirements_txt = FALSE
    /\ fails_at = 0
    /\ tests_pass = FALSE
    /\ job_pc = "queued"
    /\ install_step = "pending"
    /\ test_step = "pending"
    /\ notice = FALSE

UiIdle ==
    /\ user_menu_hidden = TRUE
    /\ sidebar_closed = FALSE
    /\ click_target = "none"
    /\ pending = << >>
    /\ hidden_before = TRUE

ResetIdle ==
    /\ pc = "idle" /\ redo = FALSE /\ all_apps = << >> /\ my_apps = << >>
    /\ django_apps = << >> /\ app = 1 /\ status = 0 /\ trace = << >>
    /\ db_sqlite3 = FALSE /\ error_log = FALSE /\ superuser = FALSE
    /\ migrations = [n \in NameSet |-> "absent"]
    /\ applied = [n \in NameSet |-> FALSE]
    /\ project = [sqlite |-> TRUE,
                  package |-> [n \in NameSet |-> FALSE],
                  installed |-> [n \in NameSet |-> FALSE],
                  external |-> [n \in NameSet |-> FALSE]]
    /\ origin = Env(Cur)
    /\ runs = 0 /\ interrupts = 0 /\ deploy = "none"

----------------------------------------------------------------------------
(* The actions of a run of undo_migrations.sh.                             *)

Others == UNCHANGED <<project, branchVars, ciVars, uiVars>>

\* ./undo_migrations.sh [--redo], typed by a developer
Invoke ==
    /\ pc = "idle"
    /\ runs = 0
    /\ deploy = "none"
    /\ \E arg \in {"--redo", ""} : Becomes(ParseArgs(Cur, arg))
    /\ runs' = 1
    /\ UNCHANGED <<origin, interrupts, deploy>>
    /\ Others

\* The same command once more, with nothing else in between.
Rerun ==
    /\ pc = "done"
    /\ deploy \in {"none", "exit"}
    /\ runs < MaxRuns
    /\ Becomes(ParseArgs(Cur, IF redo THEN "--redo" ELSE ""))
    /\ runs' = runs + 1
    /\ origin' = Env(Cur)
    /\ deploy' = "none"
    /\ UNCHANGED interrupts
    /\ Others

At(label, next) ==
    /\ pc = label
    /\ Becomes(next)
    /\ UNCHANGED <<origin, runs, interrupts, deploy>>
    /\ Others

DoRmDb == At("rm_db", RmDb(Cur))
DoShowMigrations == At("showmigrations", ShowMigrations(Cur))
DoFindMyApps == At("find", FindMyApps(Cur))
DoRemoveZero == At("remove_zero", RemoveZero(Cur))
DoRemoveRm == At("remove_rm", RemoveRm(Cur))
DoMakeMigrations == At("makemigrations", MakeMigrations(Cur))
DoMigrate == At("migrate", Migrate(Cur))
DoFilterDjangoApps == At("filter", FilterDjangoApps(Cur))
DoUndoZero == At("undo_zero", UndoZero(Cur))
DoUndoRm == At("undo_rm", UndoRm(Cur))
DoFinalMigrate == At("final_migrate", FinalMigrate(Cur))
DoCreateSuperuser ==
    \E ok \in BOOLEAN : At("create_superuser", CreateSuperuser(Cur, ok))
DoRmErrorLog == At("rm_error_log", RmErrorLog(Cur))
DoFinish == At("echo", Finish(Cur))

ScriptStep ==
    \/ DoRmDb
    \/ DoShowMigrations
    \/ DoFindMyApps
    \/ DoRemoveZero
    \/ DoRemoveRm
    \/ DoMakeMigrations
    \/ DoMigrate
    \/ DoFilterDjangoApps
    \/ DoUndoZero
    \/ DoUndoRm
    \/ DoFinalMigrate
    \/ DoCreateSuperuser
    \/ DoRmErrorLog
    \/ DoFinish

----------------------------------------------------------------------------
(* The deploy script, from its test of manage.py on.                       *)

DeployKeeps ==
    /\ UNCHANGED <<pc, redo, all_apps, my_apps, django_apps, app, status, trace,
                   db_sqlite3, error_log, migrations, applied, superuser,
                   origin, runs, interrupts>>
    /\ Others

\* ./undo_migrations.sh --redo
DeployUndoMigrations ==
    /\ pc = "idle"
    /\ runs = 0
    /\ deploy = "none"
    /\ Becomes(ParseArgs(Cur, "--redo"))
    /\ runs' = 1
    /\ deploy' = "undo_migrations"
    /\ UNCHANGED <<origin, interrupts>>
    /\ Others

\* ./manage.py collectstatic --noinput: the next line, whatever the status
DeployCollectStatic ==
    /\ deploy = "undo_migrations"
    /\ pc = "done"
    /\ deploy' = "collectstatic"
    /\ DeployKeeps

\* sudo systemctl stop eduverse.service
DeployStop ==
    /\ deploy = "collectstatic"
    /\ deploy' = "stop"
    /\ DeployKeeps

\* sudo systemctl start eduverse.service
DeployStart ==
    /\ deploy = "stop"
    /\ deploy' = "start"
    /\ DeployKeeps

\* exit 0
DeployExit ==
    /\ deploy = "start"
    /\ deploy' = "exit"
    /\ DeployKeeps

\* The run is killed between two commands; its shell variables are gone.
Interrupt ==
    /\ pc \notin {"idle", "done"}
    /\ interrupts < MaxInterrupts
    /\ Becomes([Cur EXCEPT !.pc = "idle", !.all_apps = << >>,
                           !.my_apps = << >>, !.django_apps = << >>,
                           !.app = 1, !.status = 0, !.trace = << >>])
    /\ interrupts' = interrupts + 1
    /\ UNCHANGED <<origin, runs, deploy>>
    /\ Others

\* After an interruption the script is run again, in the same mode.
Resume ==
    /\ pc = "idle"
    /\ interrupts > 0
    /\ Becomes(ParseArgs(Cur, IF redo THEN "--redo" ELSE ""))
    /\ runs' = runs + 1
    /\ UNCHANGED <<origin, interrupts, deploy>>
    /\ Others

ResetNext ==
    \/ Invoke
    \/ Rerun
    \/ ScriptStep
    \/ DeployUndoMigrations
    \/ DeployCollectStatic
    \/ DeployStop
    \/ DeployStart
    \/ DeployExit

Init == ResetInit /\ BranchIdle /\ CiIdle /\ UiIdle
\* No run of the script: the start of the checks, the workflows and the page.
InitIdle == ResetIdle /\ BranchIdle /\ CiIdle /\ UiIdle
Next == ResetNext
Spec == Init /\ [][Next]_vars

InterruptNext ==
    \/ Invoke
    \/ ScriptStep
    \/ Interrupt
    \/ Resume

SpecInterrupt == Init /\ [][InterruptNext]_vars

----------------------------------------------------------------------------
(* Properties of the migration reset procedure.                            *)

Range(list) == {list[k] : k \in 1..Len(list)}
Count(cmd) == Cardinality({k \in 1..Len(trace) : trace[k][1] = cmd})

\* The script is at one of its commands, inside the list its loop runs over:
\* it has a next command to execute.
ScriptLabels ==
    {"rm_db", "showmigrations", "find", "remove_zero", "remove_rm",
     "makemigrations", "migrate", "filter", "undo_zero", "undo_rm",
     "final_migrate", "create_superuser", "rm_error_log", "echo"}
Running ==
    /\ pc \in ScriptLabels
    /\ pc \in {"remove_zero", "remove_rm"} => app \in 1..Len(my_apps)
    /\ pc \in {"undo_zero", "undo_rm"} => app \in 1..Len(django_apps)

\* The finished run has executed every command of the script.
Completed ==
    /\ Count("rm_db") = 1
    /\ Count("showmigrations") = 1
    /\ Count("find") = 1
    /\ Count("filter") = 1
    /\ Count("migrate_zero") = Len(my_apps) + Len(django_apps)
    /\ Count("rm_migrations") = Len(my_apps) + Len(django_apps)
    /\ Count("makemigrations") = (IF redo THEN 1 ELSE 0)
    /\ Count("migrate") = (IF redo THEN 2 ELSE 0)
    /\ Count("create_superuser") = (IF redo THEN 1 ELSE 0)
    /\ Count("rm_error_log") = 1
    /\ trace[Len(trace)] = <<"echo", 0>>
Executed(cmd) == \E k \in 1..Len(trace) : trace[k][1] = cmd
Failed == \E k \in 1..Len(trace) : trace[k][2] # 0

\* What a migration-status check (manage.py showmigrations) prints now.
StatusLines == Range(ShowMigrationsOutput(Cur))
PendingReported == " [ ] 0001_initial" \in StatusLines
AppliedReported == " [X] 0001_initial" \in StatusLines

\* The migrations directory of n existed when this run began and is gone.
Removed(n) == origin.migrations[n] # "absent" /\ migrations[n] = "absent"

\* C1: a second run in the same mode, with nothing in between, ends in the
\* state the first run ended in (database file, applied migrations,
\* migrations directories, error.log).
C1_Idempotent ==
    (pc = "done" /\ runs >= 2) => EndState(Cur) = EndState(origin)

\* C2: after a finished --redo run the status check reports no pending
\* migration of any application.
C2_NoPendingAfterRedo == (pc = "done" /\ redo) => ~PendingReported

C2_Witness ==
    /\ pc = "done"
    /\ redo
    /\ \E k \in 1..Len(trace) : trace[k] = <<"migrate_zero", 0>>
    /\ AppliedReported
    /\ \E n \in NameSet : ~project.external[n] /\ HasMigrations(Cur, n)

C7_ExitStatus ==
    /\ pc = "done" => (status = 0 /\ Completed)
    /\ pc \notin {"idle", "done"} => Running
    /\ (deploy = "undo_migrations" /\ pc = "done") => ENABLED DeployCollectStatic
    /\ deploy = "collectstatic" => ENABLED DeployStop
    /\ deploy = "stop" => ENABLED DeployStart
    /\ deploy \in {"collectstatic", "stop", "start", "exit"} => pc = "done"

C7_Witness ==
    /\ deploy = "exit"
    /\ status = 0
    /\ \E k \in 1..Len(trace) : trace[k] = <<"migrate_zero", 1>>
    /\ \E k \in 1..Len(trace) : trace[k] = <<"makemigrations", 2>>
    /\ \E k \in 1..Len(trace) : trace[k] = <<"create_superuser", 1>>
    /\ \E k \in 1..Len(trace) : trace[k] = <<"rm_error_log", 1>>

\* C8: after a run without --redo the status check reports no applied
\* migration, and the run has executed no makemigrations, no migrate and no
\* create_superuser.py.
C8_AllUnwound ==
    (pc = "done" /\ ~redo) =>
        /\ ~AppliedReported
        /\ ~Executed("makemigrations")
        /\ ~Executed("migrate")
        /\ ~Executed("create_superuser")

\* C9: create_superuser.py runs in a --redo run only, right after a migrate
\* that has applied every migration: no rollback and no removal of a
\* migrations directory lies between the two.
C9_SuperuserAfterMigrate ==
    /\ \A k \in 1..Len(trace) :
          trace[k][1] = "create_superuser" =>
              /\ redo
              /\ k > 1
              /\ trace[k - 1] = <<"migrate", 0>>
    /\ pc = "create_superuser" => ~PendingReported

C9_Witness ==
    /\ Len(trace) > 2
    /\ trace[Len(trace)] = <<"create_superuser", 0>>
    /\ \E k \in 1..Len(trace) : trace[k] = <<"migrate_zero", 0>>
    /\ \E k \in 1..Len(trace) : trace[k][1] = "rm_migrations"
    /\ superuser

\* The run that began where this one, or the one it resumes, began, carried
\* through without interruption.
Uninterrupted ==
    RunToEnd(ParseArgs([Cur EXCEPT !.db_sqlite3 = origin.db_sqlite3,
                                   !.error_log = origin.error_log,
                                   !.migrations = origin.migrations,
                                   !.applied = origin.applied,
                                   !.superuser = origin.superuser],
                       IF redo THEN "--redo" ELSE ""))

\* C4: a full run in the same mode after an interrupted one executes every
\* command to the end and ends in the state an uninterrupted run ends in.
C4_ResumeEndsAlike ==
    /\ pc \notin {"idle", "done"} => Running
    /\ (pc = "done" /\ interrupts > 0) =>
           /\ Completed
           /\ EndState(Cur) = EndState(Uninterrupted)

----------------------------------------------------------------------------
(* The base-branch check of a pull request.                                *)

allowed_head_branches ==
    <<"development/core", "development/parent", "development/teacher",
      "development/student">>

\* "${allowed_head_branches[@]}" inside a quoted word: the elements with one
\* space between them.
RECURSIVE JoinSpaces(_)
JoinSpaces(list) ==
    IF list = << >> THEN ""
    ELSE IF Len(list) = 1 THEN Head(list)
    ELSE Head(list) \o " " \o JoinSpaces(Tail(list))

\* The match without the spaces around the head branch.
HeadAllowedUnpadded(head) ==
    Contains(JoinSpaces(allowed_head_branches), head)

\* [[ ! " ${allowed_head_branches[@]} " =~ " $head_branch " ]]: the quoted
\* right-hand side is matched as a plain substring.
HeadAllowed(head) ==
    Contains(" " \o JoinSpaces(allowed_head_branches) \o " ", " " \o head \o " ")

\* The exit status of the Check Base Branch script.
CheckExit(base, head) ==
    IF base = "production"
    THEN IF head # "dev" THEN 1 ELSE 0
    ELSE IF base = "dev"
         THEN IF ~HeadAllowed(head) THEN 1 ELSE 0
         ELSE 0

\* Branch names of pull requests; a git ref holds no space.
BaseBranches == {"production", "dev", "main", "development/core"}
HeadBranches ==
    {"dev", "production", "main", "feature", "core", "student",
     "development", "development/", "development/cor", "evelopment/core",
     "development/core", "development/parent", "development/teacher",
     "development/student", "development/core/x", "development/students"}

\* A pull request is opened, synchronized or reopened: jq reads both refs.
PullRequestEvent ==
    /\ check_pc = "waiting"
    /\ \E base \in BaseBranches, head \in HeadBranches :
          /\ base_branch' = base
          /\ head_branch' = head
    /\ check_pc' = "check"
    /\ check_exit' = 0
    /\ UNCHANGED <<resetVars, ciVars, uiVars>>

CheckBaseBranch ==
    /\ check_pc = "check"
    /\ check_exit' = CheckExit(base_branch, head_branch)
    /\ check_pc' = "done"
    /\ UNCHANGED <<base_branch, head_branch, resetVars, ciVars, uiVars>>

\* The job is over; the workflow waits for the next event.
CheckOver ==
    /\ check_pc = "done"
    /\ check_pc' = "waiting"
    /\ UNCHANGED <<base_branch, head_branch, check_exit, resetVars, ciVars,
                   uiVars>>

BranchNext == PullRequestEvent \/ CheckBaseBranch \/ CheckOver
SpecBranch == InitIdle /\ [][BranchNext]_vars

\* C3: a pull request to production passes only from dev, one to dev only
\* from one of the four feature branches; every other pull request to these
\* two branches makes the check exit non-zero.
C3_BaseBranchPolicy ==
    check_pc = "done" =>
        /\ base_branch = "production" =>
              (check_exit = 0 <=> head_branch = "dev")
        /\ base_branch = "dev" =>
              (check_exit = 0 <=> head_branch \in Range(allowed_head_branches))
        /\ check_exit \in {0, 1}

C3_Witness ==
    /\ check_pc = "done"
    /\ base_branch = "dev"
    /\ head_branch = "development/cor"
    /\ check_exit = 1

----------------------------------------------------------------------------
(* The test workflows: dev_test_django and production_test_django.         *)

\* The commands of Install Dependencies, in order.
InstallCommands ==
    <<"pip_upgrade", "pip_install_requirements", "wget_geckodriver",
      "tar_geckodriver", "mv_geckodriver", "chmod_geckodriver">>

\* The commands run without the test of manage.py.
InstallUnguarded(has_manage, has_requirements, failing) ==
    IF failing # 0 \/ ~has_requirements THEN "failure" ELSE "success"

\* The script of a run step ends with failure at its first failing command;
\* pip install -r requirements.txt fails when the file is missing.
InstallDependencies(has_manage, has_requirements, failing) ==
    IF has_manage
    THEN IF failing # 0 \/ ~has_requirements THEN "failure" ELSE "success"
    ELSE "success"

RunTests(has_manage, pass) ==
    IF has_manage
    THEN IF pass THEN "success" ELSE "failure"
    ELSE "success"

\* A pull request starts one of the two jobs on some checkout.
Trigger ==
    /\ job_pc = "queued"
    /\ workflow' \in {"dev_test_django", "production_test_django"}
    /\ manage_py' \in BOOLEAN
    /\ requirements_txt' \in BOOLEAN
    /\ fails_at' \in 0..Len(InstallCommands)
    /\ tests_pass' \in BOOLEAN
    /\ job_pc' = "checkout"
    /\ UNCHANGED <<install_step, test_step, notice, resetVars, branchVars, uiVars>>

\* actions/checkout
Checkout ==
    /\ job_pc = "checkout"
    /\ job_pc' = "setup_python"
    /\ UNCHANGED <<workflow, manage_py, requirements_txt, fails_at, tests_pass,
                   install_step, test_step, notice, resetVars, branchVars,
                   uiVars>>

\* actions/setup-python
SetupPython ==
    /\ job_pc = "setup_python"
    /\ job_pc' = "install"
    /\ UNCHANGED <<workflow, manage_py, requirements_txt, fails_at, tests_pass,
                   install_step, test_step, notice, resetVars, branchVars,
                   uiVars>>

StepInstallDependencies ==
    /\ job_pc = "install"
    /\ install_step' = InstallDependencies(manage_py, requirements_txt, fails_at)
    /\ job_pc' = "tests"
    /\ UNCHANGED <<workflow, manage_py, requirements_txt, fails_at, tests_pass,
                   test_step, notice, resetVars, branchVars, uiVars>>

\* A step after a failed one is skipped.
StepRunTests ==
    /\ job_pc = "tests"
    /\ test_step' = IF install_step = "failure" THEN "skipped"
                    ELSE RunTests(manage_py, tests_pass)
    /\ notice' = (/\ install_step # "failure"
                  /\ ~manage_py
                  /\ workflow = "production_test_django")
    /\ job_pc' = "finished"
    /\ UNCHANGED <<workflow, manage_py, requirements_txt, fails_at, tests_pass,
                   install_step, resetVars, branchVars, uiVars>>

CiNext ==
    \/ Trigger
    \/ Checkout
    \/ SetupPython
    \/ StepInstallDependencies
    \/ StepRunTests

SpecCI == InitIdle /\ [][CiNext]_vars

JobFailed == install_step = "failure" \/ test_step = "failure"

\* C6 as stated: with manage.py or requirements.txt missing the job ends in
\* failure.
C6_FailsWhenFileMissing ==
    (job_pc = "finished" /\ (~manage_py \/ ~requirements_txt)) => JobFailed

\* C6 amended: with manage.py missing both steps do nothing and succeed;
\* with manage.py present and requirements.txt missing Install Dependencies
\* fails and Run Tests does not run.
C6_SkipsWithoutManagePy ==
    job_pc = "finished" =>
        /\ ~manage_py =>
              /\ install_step = "success"
              /\ test_step = "success"
              /\ notice = (workflow = "production_test_django")
        /\ (manage_py /\ ~requirements_txt) =>
              /\ install_step = "failure"
              /\ test_step = "skipped"

C6_Witness ==
    /\ job_pc = "finished"
    /\ ~manage_py
    /\ ~requirements_txt
    /\ workflow = "production_test_django"
    /\ notice
    /\ ~JobFailed

----------------------------------------------------------------------------
(* The dashboard script: the sidebar and the user menu.                    *)

\* The elements of the dashboard page a click can hit, each with its parent.
Parent(e) ==
    CASE e = "user-menu-button-icon" -> "user-menu-button"
      [] e = "user-menu-item" -> "user-menu"
      [] e = "hamburger-icon" -> "hamburger"
      [] e = "sidebar-link" -> "sidebar"
      [] e = "user-menu-button" -> "header"
      [] e = "user-menu" -> "header"
      [] e = "hamburger" -> "header"
      [] e = "header" -> "body"
      [] e = "sidebar" -> "body"
      [] e = "main" -> "body"
      [] e = "body" -> "html"
      [] OTHER -> "none"

Elements ==
    {"user-menu-button-icon", "user-menu-item", "hamburger-icon",
     "sidebar-link", "user-menu-button", "user-menu", "hamburger", "header",
     "sidebar", "main", "body", "html"}

RECURSIVE NodeContains(_, _)
\* node.contains(e): e is node or a descendant of node.
NodeContains(node, e) ==
    IF e = "none" THEN FALSE
    ELSE IF e = node THEN TRUE
    ELSE NodeContains(node, Parent(e))

\* The listeners a click on e reaches, in the order of its way up to window.
RECURSIVE Listeners(_)
Listeners(e) ==
    IF e = "none" THEN <<"window">>
    ELSE (IF e = "hamburger" THEN <<"hamburger">>
          ELSE IF e = "user-menu-button" THEN <<"userMenuButton">>
          ELSE << >>) \o Listeners(Parent(e))

Click ==
    /\ pending = << >>
    /\ \E e \in Elements :
          /\ click_target' = e
          /\ pending' = Listeners(e)
    /\ hidden_before' = user_menu_hidden
    /\ UNCHANGED <<user_menu_hidden, sidebar_closed, resetVars, branchVars,
                   ciVars>>

\* hamburger.addEventListener('click', ...)
HamburgerListener(closed) == ~closed

OnHamburgerClick ==
    /\ pending # << >>
    /\ Head(pending) = "hamburger"
    /\ sidebar_closed' = HamburgerListener(sidebar_closed)
    /\ pending' = Tail(pending)
    /\ UNCHANGED <<user_menu_hidden, click_target, hidden_before, resetVars,
                   branchVars, ciVars>>

\* userMenuButton.addEventListener('click', ...)
UserMenuButtonListener(hidden) == ~hidden

OnUserMenuButtonClick ==
    /\ pending # << >>
    /\ Head(pending) = "userMenuButton"
    /\ user_menu_hidden' = UserMenuButtonListener(user_menu_hidden)
    /\ pending' = Tail(pending)
    /\ UNCHANGED <<sidebar_closed, click_target, hidden_before, resetVars,
                   branchVars, ciVars>>

\* The listener testing the menu only, not the button.
WindowListenerMenuOnly(hidden, target) ==
    IF ~NodeContains("user-menu", target) THEN TRUE ELSE hidden

\* window.addEventListener('click', (e) => ...)
WindowListener(hidden, target) ==
    IF /\ ~NodeContains("user-menu-button", target)
       /\ ~NodeContains("user-menu", target)
    THEN TRUE
    ELSE hidden

OnWindowClick ==
    /\ pending # << >>
    /\ Head(pending) = "window"
    /\ user_menu_hidden' = WindowListener(user_menu_hidden, click_target)
    /\ pending' = Tail(pending)
    /\ UNCHANGED <<sidebar_closed, click_target, hidden_before, resetVars,
                   branchVars, ciVars>>

UiNext ==
    \/ Click
    \/ OnHamburgerClick
    \/ OnUserMenuButtonClick
    \/ OnWindowClick

SpecUI == InitIdle /\ [][UiNext]_vars

Dispatched == click_target # "none" /\ pending = << >>

\* C10: once a click has reached all its listeners, the user menu is
\* flipped if the target is inside user-menu-button, as it was if the target
\* is inside user-menu, and hidden for any other target.
C10_UserMenuAfterClick ==
    Dispatched =>
        IF NodeContains("user-menu-button", click_target)
        THEN user_menu_hidden = ~hidden_before
        ELSE IF NodeContains("user-menu", click_target)
        THEN user_menu_hidden = hidden_before
        ELSE user_menu_hidden

C10_Witness ==
    /\ Dispatched
    /\ click_target = "user-menu-button-icon"
    /\ hidden_before
    /\ ~user_menu_hidden

=============================================================================
